---- MODULE Spec2Model ----
(***************************************************************************)
(* signalive/multilogger: a configuration-driven logger factory.           *)
(*                                                                         *)
(* Two entry points are modelled:                                          *)
(*   - the MultiLogger class of src/index.js (add*, addTransport,          *)
(*     addCustomTransport, addByConfig, the identity setters);             *)
(*   - the createLogger function of src/index.d.ts.                        *)
(*                                                                         *)
(* An options object is a function from (flattened) keys to string tokens; *)
(* the nested serviceContext / labels objects are flattened to dotted      *)
(* keys.  A key that is absent, or whose value is JS undefined, is not in  *)
(* the function's domain.                                                  *)
(***************************************************************************)
EXTENDS Naturals, Sequences, FiniteSets, TLC

VARIABLES api, name, serviceType, apiVersion, transports, held, last, ncalls

vars == <<api, name, serviceType, apiVersion, transports, held, last, ncalls>>

(* ------------------------------ bounds -------------------------------- *)
\* attach calls made on one MultiLogger instance
MaxCalls == 2
\* entries of a bulk transports mapping
MaxEntries == 2

(* ------------------------------ values -------------------------------- *)
\* JS undefined for an identity field
Unset == "<unset>"
EmptyObj == [k \in {} |-> ""]

Names == {"svc1", "svc2"}
ServiceTypes == {"api1"}
ApiVersions == {"v1"}

Kinds == {"console", "file", "papertrail", "elasticsearch", "stackdriver"}
\* a transport name outside the closed set
UnknownName == "syslog"
TransportKeys == Kinds \cup {UnknownName}

Levels == {"error", "warn", "info", "verbose", "debug", "silly"}

BoolTokens == {"true", "false"}
NumTokens == {"514", "10"}
\* JS null
Null == "<null>"
FuncToken == "<function>"
ObjectToken == "<object>"
ArrayToken == "<array>"

\* does value v pass the Joi type ty
Conforms(ty, v) ==
    CASE ty = "level" -> v \in Levels
      [] ty = "string" -> v \notin {"", Null, FuncToken, ObjectToken, ArrayToken}
      [] ty = "boolean" -> v \in BoolTokens
      [] ty = "number" -> v \in NumTokens
      [] ty = "port" -> v \in NumTokens
      [] ty = "func" -> v = FuncToken
      [] ty = "object" -> v = ObjectToken
      [] ty = "array" -> v = ArrayToken
      [] ty = "boolOrFunc" -> v \in BoolTokens \cup {FuncToken}
      [] ty = "health" -> v \in {"green", "yellow", "red"}
      [] ty = "any" -> TRUE

\* o with the keys of d it lacks (lodash _.defaults / _.defaultsDeep on the
\* flattened keys; a default whose value is undefined is not in DOMAIN d)
Defaults(o, d) ==
    [k \in DOMAIN o \cup DOMAIN d |-> IF k \in DOMAIN o THEN o[k] ELSE d[k]]

Truthy(o, k) == k \in DOMAIN o /\ o[k] # ""

\* the record {k: v} when v is defined, {} when v is undefined
Field(k, v) == IF v = Unset THEN EmptyObj ELSE [x \in {k} |-> v]

(* --------------------- schemas of src/index.js ------------------------ *)
consoleTransportSchema ==
    [level |-> "level", silent |-> "boolean", colorize |-> "boolean",
     timestamp |-> "boolOrFunc", json |-> "boolean", stringify |-> "boolean",
     prettyPrint |-> "boolean", depth |-> "number",
     humanReadableUnhandledException |-> "boolean", showLevel |-> "boolean",
     formatter |-> "func", stderrLevels |-> "array"]

fileTransportSchema ==
    [level |-> "level", label |-> "string", silent |-> "boolean",
     colorize |-> "boolean", timestamp |-> "boolOrFunc", filename |-> "string",
     maxsize |-> "number", maxFiles |-> "number", stream |-> "object",
     json |-> "boolean", eol |-> "string", prettyPrint |-> "boolean",
     depth |-> "number", logstash |-> "boolean", showLevel |-> "boolean",
     formatter |-> "func", tailable |-> "boolean", maxRetries |-> "number",
     zippedArchive |-> "boolean", options |-> "object"]

papertrailTransportSchema ==
    [host |-> "string", port |-> "port", program |-> "string",
     level |-> "level", inlineMeta |-> "boolean", colorize |-> "boolean",
     flushOnClose |-> "boolean", logFormat |-> "func", hostname |-> "string",
     disableTls |-> "boolean", levels |-> "object", facility |-> "string",
     handleExceptions |-> "boolean", depth |-> "number",
     attemptsBeforeDecay |-> "number", maximumAttempts |-> "number",
     connectionDelay |-> "number", maxDelayBetweenReconnection |-> "number",
     maxBufferSize |-> "number"]

elasticsearchTransportSchema ==
    [level |-> "level", index |-> "string", indexPrefix |-> "string",
     indexSuffixPattern |-> "string", messageType |-> "string",
     transformer |-> "func", ensureMappingTemplate |-> "boolean",
     mappingTemplate |-> "object", flushInterval |-> "number",
     client |-> "object", clientOpts |-> "object",
     waitForActiveShards |-> "number", pipeline |-> "number"]

stackdriverTransportSchema ==
    [k \in {"projectId", "logName", "serviceContext.service",
            "serviceContext.version", "serviceContext.resourceType",
            "keyFileName", "keyFilePath"} |-> "string"]

\* keys marked .required()
RequiredJS(kind) ==
    CASE kind = "papertrail" -> {"host", "port", "program"}
      [] kind = "stackdriver" ->
            {"projectId", "logName", "serviceContext.service",
             "serviceContext.version", "serviceContext.resourceType"}
      [] OTHER -> {}

\* keys with .default(...)
SchemaDefaultsJS(kind) ==
    CASE kind \in {"console", "file"} ->
            [colorize |-> "true", prettyPrint |-> "true"]
      [] kind = "papertrail" ->
            [inlineMeta |-> "true", colorize |-> "true", flushOnClose |-> "true"]
      [] OTHER -> EmptyObj

SchemaJS(kind) ==
    CASE kind = "console" -> consoleTransportSchema
      [] kind = "file" -> fileTransportSchema
      [] kind = "papertrail" -> papertrailTransportSchema
      [] kind = "elasticsearch" -> elasticsearchTransportSchema
      [] kind = "stackdriver" -> stackdriverTransportSchema

(* -------------------- schemas of src/index.d.ts ----------------------- *)
consoleTransportSchemaTS ==
    [level |-> "level", silent |-> "boolean", format |-> "func",
     humanReadableUnhandledException |-> "boolean", showLevel |-> "boolean",
     formatter |-> "func", stderrLevels |-> "array"]

fileTransportSchemaTS ==
    [level |-> "level", silent |-> "boolean", format |-> "func",
     filename |-> "string", maxsize |-> "number", maxFiles |-> "number",
     stream |-> "object", eol |-> "string", logstash |-> "boolean",
     showLevel |-> "boolean", formatter |-> "func", tailable |-> "boolean",
     maxRetries |-> "number", zippedArchive |-> "boolean", options |-> "object"]

papertrailTransportSchemaTS ==
    [host |-> "string", port |-> "port", program |-> "string",
     level |-> "level", inlineMeta |-> "boolean", colorize |-> "func",
     flushOnClose |-> "boolean", logFormat |-> "func", hostname |-> "string",
     disableTls |-> "boolean", levels |-> "object", facility |-> "string",
     handleExceptions |-> "boolean", depth |-> "number",
     attemptsBeforeDecay |-> "number", maximumAttempts |-> "number",
     connectionDelay |-> "number", maxDelayBetweenReconnection |-> "number",
     maxBufferSize |-> "number"]

elasticsearchTransportSchemaTS ==
    [level |-> "level", index |-> "string", indexPrefix |-> "string",
     indexSuffixPattern |-> "string", messageType |-> "string",
     transformer |-> "func", useTransformer |-> "boolean",
     ensureIndexTemplate |-> "boolean", indexTemplate |-> "object",
     flushInterval |-> "number", retryLimit |-> "number",
     healthCheckTimeout |-> "number", healthCheckWaitForStatus |-> "health",
     healthCheckWaitForNodes |-> "number", client |-> "object",
     clientOpts |-> "object", waitForActiveShards |-> "number",
     pipeline |-> "number", buffering |-> "boolean", bufferLimit |-> "number",
     apm |-> "any", dataStream |-> "boolean", source |-> "string",
     internalLogger |-> "func"]

\* labels: Joi.object() accepts any keys below it
stackdriverTransportSchemaTS ==
    [k \in {"level", "projectId", "logName", "serviceContext.service",
            "serviceContext.version", "serviceContext.resourceType",
            "keyFilename", "labels.name", "labels.version", "labels.team"} |->
        IF k = "level" THEN "level" ELSE IF k \in {"labels.name", "labels.version", "labels.team"} THEN "any" ELSE "string"]

RequiredTS(kind) == RequiredJS(kind)

SchemaDefaultsTS(kind) ==
    CASE kind = "papertrail" ->
            [level |-> "info", inlineMeta |-> "true", flushOnClose |-> "true"]
      [] OTHER -> [level |-> "info"]

SchemaTS(kind) ==
    CASE kind = "console" -> consoleTransportSchemaTS
      [] kind = "file" -> fileTransportSchemaTS
      [] kind = "papertrail" -> papertrailTransportSchemaTS
      [] kind = "elasticsearch" -> elasticsearchTransportSchemaTS
      [] kind = "stackdriver" -> stackdriverTransportSchemaTS

(* ---------------------------- validation ------------------------------ *)
\* Joi object schema with .unknown(false): no key outside the schema, every
\* required key present, every value of its key's type
Satisfies(schema, required, o) ==
    /\ DOMAIN o \subseteq DOMAIN schema
    /\ required \subseteq DOMAIN o
    /\ \A k \in DOMAIN o : Conforms(schema[k], o[k])

NoConfig == [invalid |-> "true"]

\* Joi.attempt(options, schema): the validated copy with the schema's defaults,
\* or NoConfig when it throws
\* mutant: keys outside the schema are let through
AttemptJS_AllowUnknown(kind, o) ==
    IF /\ RequiredJS(kind) \subseteq DOMAIN o
       /\ \A k \in DOMAIN o \cap DOMAIN SchemaJS(kind) : Conforms(SchemaJS(kind)[k], o[k])
    THEN Defaults(o, SchemaDefaultsJS(kind))
    ELSE NoConfig

AttemptJS(kind, o) ==
    IF Satisfies(SchemaJS(kind), RequiredJS(kind), o)
    THEN Defaults(o, SchemaDefaultsJS(kind))
    ELSE NoConfig

AttemptTS(kind, o) ==
    IF Satisfies(SchemaTS(kind), RequiredTS(kind), o)
    THEN Defaults(o, SchemaDefaultsTS(kind))
    ELSE NoConfig

(* ------------------------- the logger engine -------------------------- *)
\* The winston logger is an external collaborator: an attach map from a
\* transport key to the sinks attached under it, each sink recorded with the
\* options object its constructor was given.  remove(key) detaches what is
\* attached under the key; add(transport, options) constructs and attaches.
NoTransports == [k \in TransportKeys |-> <<>>]

\* this.transports.<key> is truthy
HasSink(t, key) == t[key] # <<>>

\* this.remove(winston.transports.<Key>)
Remove(t, key) == [t EXCEPT ![key] = <<>>]

\* this.add(winston.transports.<Key>, config)
Add(t, key, via, config) ==
    [t EXCEPT ![key] = Append(@, [via |-> via, config |-> config])]

\* what a call returns to the model: how it ended, the attach map and the
\* caller's options object after it, and the options given to the constructor
Result(outcome, t, obj, config) ==
    [outcome |-> outcome, transports |-> t, obj |-> obj, config |-> config]

(* --------------------- credentials files on disk ---------------------- *)
\* require(path).project_id: only this file exists
KeyFile == "key.json"
KeyFileProjectId == "proj-from-file"
MissingFile == "missing.json"

(* ------------------ MultiLogger, src/index.js:151-231 ----------------- *)
\* mutant: the previous console sink is never removed
DoAddConsole_NoRemove(t, options, multiple) ==
    LET config == AttemptJS("console", options)
    IN IF config = NoConfig
       THEN Result("ValidationError", t, options, NoConfig)
       ELSE Result("ok", Add(t, "console", "named", config), options, config)

DoAddConsole(t, options, multiple) ==
    LET t1 == IF ~multiple /\ HasSink(t, "console") THEN Remove(t, "console") ELSE t
        config == AttemptJS("console", options)
    IN IF config = NoConfig
       THEN Result("ValidationError", t1, options, NoConfig)
       ELSE Result("ok", Add(t1, "console", "named", config), options, config)

DoAddFile(t, options, multiple) ==
    LET t1 == IF ~multiple /\ HasSink(t, "file") THEN Remove(t, "file") ELSE t
        config == AttemptJS("file", options)
    IN IF config = NoConfig
       THEN Result("ValidationError", t1, options, NoConfig)
       ELSE Result("ok", Add(t1, "file", "named", config), options, config)

\* mutant: program is assigned, not defaulted
DoAddPapertrail_AssignProgram(t, nm, options, multiple) ==
    IF nm = Unset
    THEN Result("MissingIdentity:name", t, options, NoConfig)
    ELSE
      LET t1 == IF ~multiple /\ HasSink(t, "papertrail")
                THEN Remove(t, "papertrail") ELSE t
          o1 == Defaults(Field("program", nm), options)
          config == AttemptJS("papertrail", o1)
      IN IF config = NoConfig
         THEN Result("ValidationError", t1, o1, NoConfig)
         ELSE Result("ok", Add(t1, "papertrail", "named", config), o1, config)

DoAddPapertrail(t, nm, options, multiple) ==
    IF nm = Unset
    THEN Result("MissingIdentity:name", t, options, NoConfig)
    ELSE
      LET t1 == IF ~multiple /\ HasSink(t, "papertrail")
                THEN Remove(t, "papertrail") ELSE t
          o1 == Defaults(options, Field("program", nm))
          config == AttemptJS("papertrail", o1)
      IN IF config = NoConfig
         THEN Result("ValidationError", t1, o1, NoConfig)
         ELSE Result("ok", Add(t1, "papertrail", "named", config), o1, config)

DoAddElasticsearch(t, options, multiple) ==
    LET t1 == IF ~multiple /\ HasSink(t, "elasticsearch")
              THEN Remove(t, "elasticsearch") ELSE t
        config == AttemptJS("elasticsearch", options)
    IN IF config = NoConfig
       THEN Result("ValidationError", t1, options, NoConfig)
       ELSE Result("ok", Add(t1, "elasticsearch", "named", config), options, config)

\* mutant: the credentials are checked before the identity
DoAddStackdriver_CredentialsFirst(t, nm, st, av, options, multiple) ==
    IF ~Truthy(options, "keyFilePath") /\ ~Truthy(options, "projectId")
    THEN Result("MissingCredentials", t, options, NoConfig)
    ELSE IF nm = Unset THEN Result("MissingIdentity:name", t, options, NoConfig)
    ELSE IF st = Unset THEN Result("MissingIdentity:serviceType", t, options, NoConfig)
    ELSE IF av = Unset THEN Result("MissingIdentity:apiVersion", t, options, NoConfig)
    ELSE
      LET t1 == IF ~multiple /\ HasSink(t, "stackdriver")
                THEN Remove(t, "stackdriver") ELSE t
      IN IF Truthy(options, "keyFilePath") /\ options["keyFilePath"] # KeyFile
         THEN Result("CredentialsFileError", t1, options, NoConfig)
         ELSE
           LET projectId == IF Truthy(options, "keyFilePath")
                            THEN KeyFileProjectId ELSE Null
               o1 == Defaults(options,
                        ("projectId" :> projectId) @@ ("logName" :> nm) @@
                        ("serviceContext.service" :> st) @@
                        ("serviceContext.version" :> av) @@
                        ("serviceContext.resourceType" :> "api"))
               config == AttemptJS("stackdriver", o1)
           IN IF config = NoConfig
              THEN Result("ValidationError", t1, o1, NoConfig)
              ELSE Result("ok", Add(t1, "stackdriver", "named", config), o1, config)

DoAddStackdriver(t, nm, st, av, options, multiple) ==
    IF nm = Unset THEN Result("MissingIdentity:name", t, options, NoConfig)
    ELSE IF st = Unset THEN Result("MissingIdentity:serviceType", t, options, NoConfig)
    ELSE IF av = Unset THEN Result("MissingIdentity:apiVersion", t, options, NoConfig)
    ELSE IF ~Truthy(options, "keyFilePath") /\ ~Truthy(options, "projectId")
    THEN Result("MissingCredentials", t, options, NoConfig)
    ELSE
      LET t1 == IF ~multiple /\ HasSink(t, "stackdriver")
                THEN Remove(t, "stackdriver") ELSE t
      IN IF Truthy(options, "keyFilePath") /\ options["keyFilePath"] # KeyFile
         THEN Result("CredentialsFileError", t1, options, NoConfig)
         ELSE
           LET projectId == IF Truthy(options, "keyFilePath")
                            THEN KeyFileProjectId ELSE Null
               o1 == Defaults(options,
                        ("projectId" :> projectId) @@ ("logName" :> nm) @@
                        ("serviceContext.service" :> st) @@
                        ("serviceContext.version" :> av) @@
                        ("serviceContext.resourceType" :> "api"))
               config == AttemptJS("stackdriver", o1)
           IN IF config = NoConfig
              THEN Result("ValidationError", t1, o1, NoConfig)
              ELSE Result("ok", Add(t1, "stackdriver", "named", config), o1, config)

DoAddTransport(t, nm, st, av, transportName, options) ==
    CASE transportName = "console" -> DoAddConsole(t, options, FALSE)
      [] transportName = "file" -> DoAddFile(t, options, FALSE)
      [] transportName = "papertrail" -> DoAddPapertrail(t, nm, options, FALSE)
      [] transportName = "elasticsearch" -> DoAddElasticsearch(t, options, FALSE)
      [] transportName = "stackdriver" -> DoAddStackdriver(t, nm, st, av, options, FALSE)
      [] OTHER -> Result("UnknownKind", t, options, NoConfig)

\* this.add(transport, options): no schema; the key is the transport's own
DoAddCustomTransport(t, transport, options) ==
    Result("ok", Add(t, transport, "custom", options), options, options)

(* ------------------- values of a transports mapping ------------------- *)
\* a mapping value: a boolean, a string or an options object
BoolVal(b) == [tag |-> "bool", b |-> b, s |-> "", o |-> EmptyObj]
StrVal(str) == [tag |-> "str", b |-> FALSE, s |-> str, o |-> EmptyObj]
ObjVal(obj) == [tag |-> "obj", b |-> FALSE, s |-> "", o |-> obj]

Entry(key, val) == [key |-> key, val |-> val]

Step(key, decision, options, outcome, config) ==
    [key |-> key, decision |-> decision, options |-> options,
     outcome |-> outcome, config |-> config]

BulkResult(outcome, t, steps) ==
    [outcome |-> outcome, transports |-> t, steps |-> steps]

(* ---------------- MultiLogger.addByConfig, index.js:233-255 ----------- *)
\* lines 234-238: _.defaults on conf.papertrail / conf.stackdriver
DefaultedEntry(e, nm) ==
    IF e.val.tag # "obj" THEN e
    ELSE IF e.key = "papertrail"
    THEN Entry(e.key, ObjVal(Defaults(e.val.o, Field("program", nm))))
    ELSE IF e.key = "stackdriver"
    THEN Entry(e.key, ObjVal(Defaults(e.val.o, Field("logName", nm))))
    ELSE e

\* lines 240-246: Joi.attempt(conf, Joi.object({console: ..., ...}))
ConfSatisfies(conf) ==
    \A i \in DOMAIN conf :
        /\ conf[i].key \in Kinds
        /\ conf[i].val.tag = "obj"
        /\ Satisfies(SchemaJS(conf[i].key), RequiredJS(conf[i].key), conf[i].val.o)

\* the body of the forEach callback, lines 249-253
AddForKey(t, nm, st, av, key, options) ==
    CASE key = "console" -> DoAddConsole(t, options, FALSE)
      [] key = "file" -> DoAddFile(t, options, FALSE)
      [] key = "papertrail" -> DoAddPapertrail(t, nm, options, FALSE)
      [] key = "elasticsearch" -> DoAddElasticsearch(t, options, FALSE)
      [] key = "stackdriver" -> DoAddStackdriver(t, nm, st, av, options, FALSE)
      [] OTHER -> Result("ok", t, options, NoConfig)

RECURSIVE ForEachByConfig(_, _, _, _, _, _, _)
ForEachByConfig(t, nm, st, av, conf, i, steps) ==
    IF i > Len(conf) THEN BulkResult("ok", t, steps)
    ELSE
      LET e == conf[i]
          r == AddForKey(t, nm, st, av, e.key, e.val.o)
          steps1 == Append(steps, Step(e.key, "attach", e.val.o, r.outcome, r.config))
      IN IF r.outcome # "ok"
         THEN BulkResult(r.outcome, r.transports, steps1)
         ELSE ForEachByConfig(r.transports, nm, st, av, conf, i + 1, steps1)

DoAddByConfig(t, nm, st, av, conf) ==
    LET conf1 == [i \in DOMAIN conf |-> DefaultedEntry(conf[i], nm)]
    IN IF ~ConfSatisfies(conf1)
       THEN BulkResult("ValidationError", t, <<>>)
       ELSE ForEachByConfig(t, nm, st, av, conf1, 1, <<>>)

(* -------------------- createLogger, index.d.ts:203-300 ---------------- *)
\* lines 214-222: the shorthand forms of a mapping value
Normalize(val) ==
    IF val.tag = "bool"
    THEN IF val.b THEN [decision |-> "attach", options |-> EmptyObj]
                  ELSE [decision |-> "skip", options |-> EmptyObj]
    ELSE IF val.tag = "str"
    THEN IF val.s = "enabled" THEN [decision |-> "attach", options |-> EmptyObj]
         ELSE IF val.s = "disabled" THEN [decision |-> "skip", options |-> EmptyObj]
         ELSE [decision |-> "throw", options |-> EmptyObj]
    ELSE [decision |-> "attach", options |-> val.o]

\* lines 224-236, 250-255: console, file, elasticsearch
AttachSimpleTS(t, kind, options) ==
    LET t1 == Remove(t, kind)
        config == AttemptTS(kind, options)
    IN IF config = NoConfig
       THEN Result("ValidationError", t1, options, NoConfig)
       ELSE Result("ok", Add(t1, kind, "named", config), options, config)

\* lines 238-248
AttachPapertrailTS(t, nm, options) ==
    IF nm = Unset
    THEN Result("MissingIdentity:name", t, options, NoConfig)
    ELSE
      LET t1 == Remove(t, "papertrail")
          o1 == Defaults(options, Field("program", nm))
          config == AttemptTS("papertrail", o1)
      IN IF config = NoConfig
         THEN Result("ValidationError", t1, o1, NoConfig)
         ELSE Result("ok", Add(t1, "papertrail", "named", config), o1, config)

\* lines 257-296; env is process.env.GOOGLE_APPLICATION_CREDENTIALS
AttachStackdriverTS(t, nm, st, av, env, options) ==
    IF nm = Unset THEN Result("MissingIdentity:name", t, options, NoConfig)
    ELSE IF st = Unset THEN Result("MissingIdentity:serviceType", t, options, NoConfig)
    ELSE IF av = Unset THEN Result("MissingIdentity:apiVersion", t, options, NoConfig)
    ELSE
      LET keyFilename == IF Truthy(options, "keyFilename")
                         THEN options["keyFilename"] ELSE env
      IN IF keyFilename = Unset /\ ~Truthy(options, "projectId")
         THEN Result("MissingCredentials", t, options, NoConfig)
         ELSE
           LET t1 == Remove(t, "stackdriver")
           IN IF keyFilename # Unset /\ keyFilename # KeyFile
              THEN Result("CredentialsFileError", t1, options, NoConfig)
              ELSE
                LET projectId == IF keyFilename # Unset THEN KeyFileProjectId ELSE Null
                    o1 == Defaults(options,
                             ("projectId" :> projectId) @@ ("logName" :> st) @@
                             ("serviceContext.service" :> nm) @@
                             ("serviceContext.version" :> av) @@
                             ("serviceContext.resourceType" :> "api") @@
                             Field("keyFilename", keyFilename) @@
                             ("labels.name" :> nm) @@ ("labels.version" :> av))
                    config == AttemptTS("stackdriver", o1)
                IN IF config = NoConfig
                   THEN Result("ValidationError", t1, o1, NoConfig)
                   ELSE Result("ok", Add(t1, "stackdriver", "named", config), o1, config)

\* the chain of if (transport == ...) of lines 224-296
AttachForKeyTS(t, nm, st, av, env, key, options) ==
    CASE key \in {"console", "file", "elasticsearch"} -> AttachSimpleTS(t, key, options)
      [] key = "papertrail" -> AttachPapertrailTS(t, nm, options)
      [] key = "stackdriver" -> AttachStackdriverTS(t, nm, st, av, env, options)
      [] OTHER -> Result("ok", t, options, NoConfig)

RECURSIVE ForEachCreate(_, _, _, _, _, _, _, _)
ForEachCreate(t, nm, st, av, env, conf, i, steps) ==
    IF i > Len(conf) THEN BulkResult("ok", t, steps)
    ELSE
      LET e == conf[i]
          n == Normalize(e.val)
      IN IF n.decision = "throw"
         THEN BulkResult("UnknownShorthand", t,
                         Append(steps, Step(e.key, "throw", EmptyObj, "UnknownShorthand", NoConfig)))
         ELSE IF n.decision = "skip"
         THEN ForEachCreate(t, nm, st, av, env, conf, i + 1,
                            Append(steps, Step(e.key, "skip", EmptyObj, "ok", NoConfig)))
         ELSE
           LET r == AttachForKeyTS(t, nm, st, av, env, e.key, n.options)
               steps1 == Append(steps,
                            Step(e.key, IF e.key \in Kinds THEN "attach" ELSE "ignore",
                                 n.options, r.outcome, r.config))
           IN IF r.outcome # "ok"
              THEN BulkResult(r.outcome, r.transports, steps1)
              ELSE ForEachCreate(r.transports, nm, st, av, env, conf, i + 1, steps1)

\* winston.createLogger({level: 'silly'}) starts with no transport
DoCreateLogger(nm, st, av, env, conf) ==
    ForEachCreate(NoTransports, nm, st, av, env, conf, 1, <<>>)

(* ------------------------------ inputs -------------------------------- *)
\* options for console, file and elasticsearch: the default {}, a valid
\* level, a level outside the enumeration, and a key only file's schema
\* of index.js knows
SimpleOptions ==
    {EmptyObj, [level |-> "debug"], [level |-> "loud"], [label |-> "app"]}

PapertrailBase == [host |-> "logs.example.com", port |-> "514"]

PapertrailOptions ==
    {PapertrailBase,
     PapertrailBase @@ [program |-> "shipper"],
     [host |-> "logs.example.com"],
     PapertrailBase @@ [label |-> "app"]}

StackdriverFull ==
    ("projectId" :> "p1") @@ ("logName" :> "mylog") @@
    ("serviceContext.service" :> "mine") @@
    ("serviceContext.version" :> "v9") @@
    ("serviceContext.resourceType" :> "worker")

StackdriverOptionsJS ==
    {EmptyObj,
     [projectId |-> "p1"],
     [keyFilePath |-> KeyFile],
     [keyFilePath |-> MissingFile],
     ("projectId" :> "p1") @@ ("serviceContext.service" :> "mine"),
     [projectId |-> "p1", label |-> "app"],
     StackdriverFull}

StackdriverOptionsTS ==
    {EmptyObj,
     [projectId |-> "p1"],
     [keyFilename |-> KeyFile],
     ("projectId" :> "p1") @@ ("serviceContext.service" :> "mine") @@ ("labels.team" :> "core"),
     [projectId |-> "p1", label |-> "app"],
     [level |-> "loud"]}

OptionsJS(kind) ==
    CASE kind = "papertrail" -> PapertrailOptions
      [] kind = "stackdriver" -> StackdriverOptionsJS
      [] kind = UnknownName -> {EmptyObj}
      [] OTHER -> SimpleOptions

\* a transports mapping holds, per key, some of the shorthand forms and some
\* options objects
BulkValuesJS(key) ==
    CASE key = "console" ->
            {BoolVal(TRUE), StrVal("bogus"), ObjVal(EmptyObj), ObjVal([label |-> "app"])}
      [] key = "file" -> {StrVal("disabled"), ObjVal([label |-> "app"])}
      [] key = "papertrail" ->
            {BoolVal(FALSE), ObjVal(PapertrailBase),
             ObjVal(PapertrailBase @@ [program |-> "shipper"])}
      [] key = "elasticsearch" -> {StrVal("enabled"), ObjVal(EmptyObj)}
      [] key = "stackdriver" ->
            {ObjVal([projectId |-> "p1"]), ObjVal(StackdriverFull),
             ObjVal(StackdriverFull @@ [keyFilePath |-> MissingFile])}
      [] OTHER -> {BoolVal(TRUE), ObjVal(EmptyObj)}

\* the options tried through addTransport
TransportOptions(kind) ==
    CASE kind = "papertrail" -> {PapertrailBase, [host |-> "logs.example.com"]}
      [] kind = "stackdriver" -> {EmptyObj, [projectId |-> "p1"]}
      [] kind = UnknownName -> {EmptyObj}
      [] OTHER -> {EmptyObj, [level |-> "loud"]}

Shorthands ==
    {BoolVal(TRUE), BoolVal(FALSE), StrVal("enabled"), StrVal("disabled"), StrVal("bogus")}

BulkValuesTS(key) ==
    Shorthands \cup
    (CASE key = "papertrail" ->
            {ObjVal(PapertrailBase), ObjVal(PapertrailBase @@ [program |-> "shipper"])}
       [] key = "stackdriver" -> {ObjVal([projectId |-> "p1"]), ObjVal([level |-> "loud"])}
       [] key = UnknownName -> {ObjVal(EmptyObj)}
       [] OTHER -> {ObjVal(EmptyObj), ObjVal([label |-> "app"])})

BulkEntries(a) ==
    UNION {{Entry(key, val) : val \in (IF a = "MultiLogger" THEN BulkValuesJS(key)
                                       ELSE BulkValuesTS(key))} : key \in TransportKeys}

ConfKeys(conf) == {conf[i].key : i \in DOMAIN conf}

\* the mappings of n entries: keys are unique, iteration follows insertion
RECURSIVE ConfsOfLen(_, _)
ConfsOfLen(a, n) ==
    IF n = 0 THEN {<<>>}
    ELSE {Append(c, e) : <<c, e>> \in
            {x \in ConfsOfLen(a, n - 1) \X BulkEntries(a) : x[2].key \notin ConfKeys(x[1])}}

Confs(a) == UNION {ConfsOfLen(a, n) : n \in 1..MaxEntries}

ConfsJS == Confs("MultiLogger")
ConfsTS == Confs("createLogger")

(* ------------------------------- state -------------------------------- *)
NoHeld == [kind |-> "-", obj |-> EmptyObj, orig |-> EmptyObj]

\* the record of the latest operation: what was called with what, how it
\* ended, the options given to the sink constructor, and the attach map the
\* call started from
Last(op, kind, multiple, arg, orig, outcome, config, conf, steps, env, before) ==
    [op |-> op, kind |-> kind, multiple |-> multiple, arg |-> arg, orig |-> orig,
     outcome |-> outcome, config |-> config, conf |-> conf, steps |-> steps,
     env |-> env, before |-> before]

NoLast == Last("new", "-", FALSE, EmptyObj, EmptyObj, "ok", NoConfig, <<>>, <<>>, Unset, NoTransports)

\* new MultiLogger(params): undefined, a name, or an object of identity fields
ConstructorParams ==
    {[name |-> Unset, serviceType |-> Unset, apiVersion |-> Unset],
     [name |-> "svc1", serviceType |-> Unset, apiVersion |-> Unset],
     [name |-> "svc1", serviceType |-> "api1", apiVersion |-> "v1"]}

Init ==
    /\ api \in {"MultiLogger", "createLogger"}
    /\ \E p \in ConstructorParams :
          /\ name = (IF api = "MultiLogger" THEN p.name ELSE Unset)
          /\ serviceType = (IF api = "MultiLogger" THEN p.serviceType ELSE Unset)
          /\ apiVersion = (IF api = "MultiLogger" THEN p.apiVersion ELSE Unset)
    /\ transports = NoTransports
    /\ held = NoHeld
    /\ last = NoLast
    /\ ncalls = 0

CanCall == api = "MultiLogger" /\ ncalls < MaxCalls

\* the objects a caller can pass for kind: a new literal, or the object it
\* passed to the previous call of that kind
Passable(kind) ==
    {[obj |-> o, orig |-> o] : o \in OptionsJS(kind)} \cup
    (IF held.kind = kind THEN {[obj |-> held.obj, orig |-> held.orig]} ELSE {})

Called(op, kind, multiple, p, r) ==
    /\ transports' = r.transports
    /\ last' = Last(op, kind, multiple, p.obj, p.orig, r.outcome, r.config, <<>>, <<>>, Unset, transports)
    /\ ncalls' = ncalls + 1
    /\ UNCHANGED <<api, name, serviceType, apiVersion>>

(* ------------------------------ actions ------------------------------- *)
SetName ==
    /\ CanCall
    /\ \E v \in Names \cup {""} :
          /\ Conforms("string", v)
          /\ name' = v
          /\ last' = Last("setName", "-", FALSE, EmptyObj, EmptyObj, "ok", NoConfig, <<>>, <<>>, Unset, transports)
    /\ UNCHANGED <<api, serviceType, apiVersion, transports, held, ncalls>>

SetServiceType ==
    /\ CanCall
    /\ \E v \in ServiceTypes \cup {""} :
          /\ Conforms("string", v)
          /\ serviceType' = v
          /\ last' = Last("setServiceType", "-", FALSE, EmptyObj, EmptyObj, "ok", NoConfig, <<>>, <<>>, Unset, transports)
    /\ UNCHANGED <<api, name, apiVersion, transports, held, ncalls>>

SetApiVersion ==
    /\ CanCall
    /\ \E v \in ApiVersions \cup {""} :
          /\ Conforms("string", v)
          /\ apiVersion' = v
          /\ last' = Last("setApiVersion", "-", FALSE, EmptyObj, EmptyObj, "ok", NoConfig, <<>>, <<>>, Unset, transports)
    /\ UNCHANGED <<api, name, serviceType, transports, held, ncalls>>

AddConsole ==
    /\ CanCall
    /\ \E p \in Passable("console"), multiple \in BOOLEAN :
          Called("addConsole", "console", multiple, p,
                 DoAddConsole(transports, p.obj, multiple))
    /\ UNCHANGED held

AddFile ==
    /\ CanCall
    /\ \E p \in Passable("file"), multiple \in BOOLEAN :
          Called("addFile", "file", multiple, p,
                 DoAddFile(transports, p.obj, multiple))
    /\ UNCHANGED held

AddPapertrail ==
    /\ CanCall
    /\ \E p \in Passable("papertrail"), multiple \in BOOLEAN :
          LET r == DoAddPapertrail(transports, name, p.obj, multiple)
          IN /\ Called("addPapertrail", "papertrail", multiple, p, r)
             /\ held' = [kind |-> "papertrail", obj |-> r.obj, orig |-> p.orig]

AddElasticsearch ==
    /\ CanCall
    /\ \E p \in Passable("elasticsearch"), multiple \in BOOLEAN :
          Called("addElasticsearch", "elasticsearch", multiple, p,
                 DoAddElasticsearch(transports, p.obj, multiple))
    /\ UNCHANGED held

AddStackdriver ==
    /\ CanCall
    /\ \E p \in Passable("stackdriver"), multiple \in BOOLEAN :
          LET r == DoAddStackdriver(transports, name, serviceType, apiVersion, p.obj, multiple)
          IN /\ Called("addStackdriver", "stackdriver", multiple, p, r)
             /\ held' = [kind |-> "stackdriver", obj |-> r.obj, orig |-> p.orig]

AddTransport ==
    /\ CanCall
    /\ \E transportName \in TransportKeys :
          \E o \in TransportOptions(transportName) :
             Called("addTransport", transportName, FALSE, [obj |-> o, orig |-> o],
                    DoAddTransport(transports, name, serviceType, apiVersion, transportName, o))
    /\ UNCHANGED held

AddCustomTransport ==
    /\ CanCall
    /\ \E transport \in {UnknownName, "console"} :
          LET o == [label |-> "app"]
          IN Called("addCustomTransport", transport, FALSE, [obj |-> o, orig |-> o],
                    DoAddCustomTransport(transports, transport, o))
    /\ UNCHANGED held

AddByConfig ==
    /\ CanCall
    /\ \E conf \in ConfsJS :
          LET r == DoAddByConfig(transports, name, serviceType, apiVersion, conf)
          IN /\ transports' = r.transports
             /\ last' = Last("addByConfig", "-", FALSE, EmptyObj, EmptyObj, r.outcome,
                             NoConfig, conf, r.steps, Unset, transports)
    /\ ncalls' = ncalls + 1
    /\ UNCHANGED <<api, name, serviceType, apiVersion, held>>

\* every call builds a new logger: one call per behaviour shows them all
CreateLogger ==
    /\ api = "createLogger"
    /\ ncalls = 0
    /\ \E nm \in {Unset, "svc1"}, st \in {Unset, "api1"}, av \in {Unset, "v1"},
          env \in {Unset, KeyFile}, conf \in ConfsTS :
          LET r == DoCreateLogger(nm, st, av, env, conf)
          IN /\ name' = nm
             /\ serviceType' = st
             /\ apiVersion' = av
             /\ transports' = r.transports
             /\ last' = Last("createLogger", "-", FALSE, EmptyObj, EmptyObj, r.outcome,
                             NoConfig, conf, r.steps, env, NoTransports)
    /\ ncalls' = 1
    /\ UNCHANGED <<api, held>>

Next ==
    \/ SetName \/ SetServiceType \/ SetApiVersion
    \/ AddConsole \/ AddFile \/ AddPapertrail \/ AddElasticsearch \/ AddStackdriver
    \/ AddTransport \/ AddCustomTransport \/ AddByConfig
    \/ CreateLogger

Spec == Init /\ [][Next]_vars

(* ============================== claims ================================ *)
NamedAttachOps ==
    {"addConsole", "addFile", "addPapertrail", "addElasticsearch",
     "addStackdriver", "addTransport"}

BulkOps == {"addByConfig", "createLogger"}

SchemaOf(kind) == IF api = "MultiLogger" THEN SchemaJS(kind) ELSE SchemaTS(kind)

RequiredOf(kind) == IF api = "MultiLogger" THEN RequiredJS(kind) ELSE RequiredTS(kind)

\* errors of the kind-specific precondition step
PreconditionErrors ==
    {"MissingIdentity:name", "MissingIdentity:serviceType",
     "MissingIdentity:apiVersion", "MissingCredentials", "CredentialsFileError"}

\* every field of options is in config with the same value
BuiltFrom(config, options) ==
    \A k \in DOMAIN options : k \in DOMAIN config /\ config[k] = options[k]

NamedSink(config) == [via |-> "named", config |-> config]

\* the latest operation was a per-kind attach of kind
AttachOf(kind) == last.op \in NamedAttachOps /\ last.kind = kind

\* C1: an attach call whose options carry a key outside the kind's schema
\* fails (with the validation error once the kind's preconditions are met)
\* and leaves the attach map as it was before the call, also when a sink of
\* that kind was attached before.
C1_UnknownKeyLeavesMapUnchanged ==
    (/\ last.op \in NamedAttachOps
     /\ last.kind \in Kinds
     /\ ~(DOMAIN last.arg \subseteq DOMAIN SchemaOf(last.kind)))
    => /\ last.outcome \in {"ValidationError"} \cup PreconditionErrors
       /\ transports = last.before

\* C2: a successful non-additive attach of kind K leaves exactly one sink under
\* K, built from this call's options; a successful additive attach leaves one
\* sink more than before.  The same for every entry a bulk apply attaches.
C2_ReplaceOrAdd ==
    /\ (last.op \in NamedAttachOps /\ last.outcome = "ok") =>
          LET sinks == transports[last.kind]
          IN IF last.multiple
             THEN /\ Len(sinks) = Len(last.before[last.kind]) + 1
                  /\ sinks[Len(sinks)] = NamedSink(last.config)
             ELSE /\ sinks = <<NamedSink(last.config)>>
                  /\ BuiltFrom(last.config, last.arg)
    /\ last.op \in BulkOps =>
          \A i \in DOMAIN last.steps :
             (last.steps[i].decision = "attach" /\ last.steps[i].outcome = "ok") =>
                /\ transports[last.steps[i].key] = <<NamedSink(last.steps[i].config)>>
                /\ BuiltFrom(last.steps[i].config, last.steps[i].options)

\* a second non-additive attach replaced a sink built from other options
C2_Witness ==
    /\ AttachOf("console") /\ ~last.multiple /\ last.outcome = "ok"
    /\ Len(last.before["console"]) = 1
    /\ last.before["console"][1].via = "named"
    /\ last.before["console"][1].config # last.config
    /\ transports["console"] = <<NamedSink(last.config)>>

\* C3: every sink attached through a named-kind path was built from options
\* that satisfy the kind's schema: no key outside it, every required key
\* present, level (when present) in the level enumeration.  Only a sink
\* attached by addCustomTransport may carry unvalidated options.
C3_NamedSinksSatisfySchema ==
    \A key \in TransportKeys :
       \A i \in DOMAIN transports[key] :
          transports[key][i].via = "named" =>
             LET config == transports[key][i].config
             IN /\ key \in Kinds
                /\ Satisfies(SchemaOf(key), RequiredOf(key), config)
                /\ "level" \in DOMAIN config => config["level"] \in Levels

\* a validated sink and an unvalidated custom sink are attached together
C3_Witness ==
    /\ \E i \in DOMAIN transports["console"] :
          /\ transports["console"][i].via = "custom"
          /\ ~Satisfies(SchemaOf("console"), RequiredOf("console"),
                        transports["console"][i].config)
    /\ \E i \in DOMAIN transports["console"] : transports["console"][i].via = "named"

\* the attach steps of a bulk apply for key
StepsOf(key) ==
    {i \in DOMAIN last.steps :
        last.steps[i].key = key /\ last.steps[i].decision = "attach"}

\* options that lack nothing but program to satisfy the papertrail schema
PapertrailReady(o) ==
    /\ {"host", "port"} \subseteq DOMAIN o
    /\ DOMAIN o \subseteq DOMAIN SchemaOf("papertrail")
    /\ \A k \in DOMAIN o : Conforms(SchemaOf("papertrail")[k], o[k])

\* the program a papertrail sink must be given for the caller's options o
ExpectedProgram(o) == IF "program" \in DOMAIN o THEN o["program"] ELSE name

\* C4: attaching papertrail while the logger has no name fails with the
\* missing-name error and changes nothing; with a name n and valid host and
\* port the call succeeds, and the sink's options carry the caller's program,
\* or n when the caller gave none.  For addPapertrail / addTransport and for
\* the papertrail entry of createLogger.
C4_PapertrailNeedsName ==
    /\ (AttachOf("papertrail") /\ name = Unset) =>
          /\ last.outcome = "MissingIdentity:name"
          /\ transports = last.before
    /\ (AttachOf("papertrail") /\ name # Unset /\ last.arg = last.orig
          /\ PapertrailReady(last.arg)) =>
          /\ last.outcome = "ok"
          /\ last.config["program"] = ExpectedProgram(last.arg)
          /\ transports["papertrail"][Len(transports["papertrail"])] = NamedSink(last.config)
    /\ last.op = "createLogger" =>
          \A i \in StepsOf("papertrail") :
             /\ name = Unset =>
                   /\ last.steps[i].outcome = "MissingIdentity:name"
                   /\ transports["papertrail"] = <<>>
             /\ (name # Unset /\ PapertrailReady(last.steps[i].options)) =>
                   /\ last.steps[i].outcome = "ok"
                   /\ last.steps[i].config["program"] = ExpectedProgram(last.steps[i].options)
                   /\ transports["papertrail"] = <<NamedSink(last.steps[i].config)>>

\* the second of two calls, made with a name and without program, succeeds
\* with program = name after nothing had been attached under papertrail
C4_Witness ==
    /\ AttachOf("papertrail") /\ ncalls = 2 /\ last.outcome = "ok"
    /\ last.before["papertrail"] = <<>>
    /\ "program" \notin DOMAIN last.arg
    /\ last.config["program"] = name
    /\ held.obj["program"] = name

\* the path option naming the credentials file
KeyPathOption == IF api = "MultiLogger" THEN "keyFilePath" ELSE "keyFilename"

\* what a stackdriver attach must answer for options o, as far as the
\* preconditions decide it ("-" when they are all met)
ExpectedPrecondition(o, env) ==
    IF name = Unset THEN "MissingIdentity:name"
    ELSE IF serviceType = Unset THEN "MissingIdentity:serviceType"
    ELSE IF apiVersion = Unset THEN "MissingIdentity:apiVersion"
    ELSE IF "projectId" \notin DOMAIN o /\ KeyPathOption \notin DOMAIN o /\ env = Unset
    THEN "MissingCredentials"
    ELSE "-"

StackdriverPreconditionErrors ==
    {"MissingIdentity:name", "MissingIdentity:serviceType",
     "MissingIdentity:apiVersion", "MissingCredentials"}

\* C5: attaching stackdriver checks name, serviceType, apiVersion, then the
\* credentials, in that order: it fails with the missing-identity error of the
\* first unset field, and with all three set and neither projectId nor a
\* credentials path (option or environment) with the missing-credentials
\* error.  Each of these failures leaves the attach map unchanged.
C5_StackdriverPreconditionOrder ==
    /\ AttachOf("stackdriver") =>
          /\ ExpectedPrecondition(last.arg, Unset) # "-" =>
                last.outcome = ExpectedPrecondition(last.arg, Unset)
          /\ last.outcome \in StackdriverPreconditionErrors => transports = last.before
    /\ last.op = "createLogger" =>
          \A i \in StepsOf("stackdriver") :
             /\ ExpectedPrecondition(last.steps[i].options, last.env) # "-" =>
                   last.steps[i].outcome = ExpectedPrecondition(last.steps[i].options, last.env)
             /\ last.steps[i].outcome \in StackdriverPreconditionErrors =>
                   transports["stackdriver"] = <<>>

\* with the identity complete, an attach without credentials fails and the
\* stackdriver sink attached before it is still there
C5_Witness ==
    /\ AttachOf("stackdriver") /\ last.outcome = "MissingCredentials"
    /\ name # Unset /\ serviceType # Unset /\ apiVersion # Unset
    /\ Len(last.before["stackdriver"]) = 1
    /\ transports = last.before

\* options o were defaulted into config as C6 states it
StackdriverDefaulted(o, config) ==
    /\ BuiltFrom(config, o)
    /\ "serviceContext.service" \notin DOMAIN o => config["serviceContext.service"] = name
    /\ "serviceContext.version" \notin DOMAIN o => config["serviceContext.version"] = apiVersion
    /\ "serviceContext.resourceType" \notin DOMAIN o =>
          config["serviceContext.resourceType"] = "api"
    /\ "logName" \notin DOMAIN o => config["logName"] \in {serviceType, name}
    /\ "projectId" \notin DOMAIN o => config["projectId"] = KeyFileProjectId

\* C6: on every successful stackdriver attach the sink's options keep every
\* field of the options passed in and fill the absent ones:
\* serviceContext.service = name, serviceContext.version = apiVersion,
\* serviceContext.resourceType = "api", logName = serviceType or name,
\* projectId = the credentials file's project identifier.
C6_StackdriverDefaults ==
    /\ (AttachOf("stackdriver") /\ last.outcome = "ok") =>
          StackdriverDefaulted(last.arg, last.config)
    /\ last.op = "createLogger" =>
          \A i \in StepsOf("stackdriver") :
             last.steps[i].outcome = "ok" =>
                StackdriverDefaulted(last.steps[i].options, last.steps[i].config)

\* the identity-derived fields of kind's options
IdentityDerived(kind) ==
    CASE kind = "papertrail" -> {"program"}
      [] kind = "stackdriver" ->
            {"logName", "serviceContext.service", "serviceContext.version"}
      [] OTHER -> {}

\* C7: every identity-derived default (papertrail program; stackdriver logName
\* and serviceContext) in the options given to a sink constructor is a value
\* of the identity current at that attach call, whenever the caller did not
\* supply the field; also when the same options object is passed to a second
\* attach call after an identity change.
C7_DefaultsFromCurrentIdentity ==
    (last.op \in NamedAttachOps /\ last.outcome = "ok") =>
       \A k \in IdentityDerived(last.kind) \ DOMAIN last.orig :
          last.config[k] \in {name, serviceType, apiVersion}

\* a bulk value that asks for the kind with default options
Enabling(val) ==
    (val.tag = "bool" /\ val.b) \/ (val.tag = "str" /\ val.s = "enabled")

\* a bulk value that asks to leave the kind out
Disabling(val) ==
    (val.tag = "bool" /\ ~val.b) \/ (val.tag = "str" /\ val.s = "disabled")

\* entry i of the mapping is reached: every entry before it was taken and
\* did not fail
Reached(i) ==
    \A j \in 1..(i - 1) : j \in DOMAIN last.steps /\ last.steps[j].outcome = "ok"

\* C8: a bulk apply normalizes each entry before attaching: true / "enabled"
\* attach the kind with empty options, false / "disabled" attempt no attach,
\* any other string makes the apply fail.
C8_ShorthandNormalized ==
    last.op \in BulkOps =>
       \A i \in DOMAIN last.conf :
          Reached(i) =>
             LET val == last.conf[i].val
             IN /\ Enabling(val) =>
                      /\ i \in DOMAIN last.steps
                      /\ last.steps[i].decision \in {"attach", "ignore"}
                      /\ last.steps[i].options = EmptyObj
                /\ Disabling(val) =>
                      /\ i \in DOMAIN last.steps
                      /\ last.steps[i].decision = "skip"
                      /\ last.steps[i].outcome = "ok"
                /\ (val.tag = "str" /\ ~Enabling(val) /\ ~Disabling(val)) =>
                      /\ last.outcome # "ok"
                      /\ Len(last.steps) <= i

\* the sinks that are under key when the last step of a bulk apply starts
BeforeLastStep(key) ==
    LET earlier == {i \in StepsOf(key) : i < Len(last.steps) /\ last.steps[i].outcome = "ok"}
    IN IF earlier = {} THEN last.before[key]
       ELSE <<NamedSink(last.steps[CHOOSE i \in earlier : TRUE].config)>>

\* C9: an attach call for kind K, whether it succeeds or fails, changes nothing
\* under any other kind; a bulk apply leaves the kinds absent from the mapping
\* untouched, and when an entry fails every sink attached before the failure
\* (by earlier entries or earlier calls) is still attached.
C9_OtherKindsUntouched ==
    /\ last.op \in NamedAttachOps =>
          \A key \in TransportKeys \ {last.kind} : transports[key] = last.before[key]
    /\ last.op \in BulkOps =>
          /\ \A key \in TransportKeys \ ConfKeys(last.conf) :
                transports[key] = last.before[key]
          /\ last.outcome # "ok" =>
                \A key \in TransportKeys : transports[key] = BeforeLastStep(key)

\* C10: a named attach request for a kind outside the closed set fails and
\* leaves the attach map unchanged: addTransport with the unknown-kind error,
\* and a bulk apply whatever value accompanies the unknown key.
C10_UnknownKindRejected ==
    /\ (last.op = "addTransport" /\ last.kind \notin Kinds) =>
          (last.outcome = "UnknownKind" /\ transports = last.before)
    /\ (last.op \in BulkOps /\ ~(ConfKeys(last.conf) \subseteq Kinds)) =>
          /\ last.outcome # "ok"
          /\ last.conf[1].key \notin Kinds => transports = last.before

\* the class of an outcome: the three missing-identity errors are one class
ErrorClass(outcome) ==
    IF outcome \in {"MissingIdentity:name", "MissingIdentity:serviceType",
                    "MissingIdentity:apiVersion"}
    THEN "MissingIdentity" ELSE outcome

\* the last call was addByConfig with the single entry {K: options}, K one of
\* the five kinds and options an options object
SingleEntryBulk ==
    /\ last.op = "addByConfig"
    /\ Len(last.conf) = 1
    /\ last.conf[1].key \in Kinds
    /\ last.conf[1].val.tag = "obj"

\* what the per-kind attach operation does with the same options in the
\* logger state the bulk apply started from
DirectAttach ==
    AddForKey(last.before, name, serviceType, apiVersion,
              last.conf[1].key, last.conf[1].val.o)

\* C11: bulk-applying a mapping with the single entry {K: options} has the
\* outcome of the per-kind attach operation for K called with the same
\* options in the same logger state: both succeed or both fail with the same
\* class of error, and on success both leave the same attach map.
C11_BulkSingleEntryAsDirect ==
    SingleEntryBulk =>
       /\ ErrorClass(last.outcome) = ErrorClass(DirectAttach.outcome)
       /\ last.outcome = "ok" => transports = DirectAttach.transports

====
